---- MODULE Spec2Model ----
(***************************************************************************)
(* Model of the download-statistics fetch job (scripts/fetch-data.mjs):    *)
(* the snapshot table asset_daily_stats, the table daily_summary, and one  *)
(* run of main(): fetchGitHubReleases, storeDailyStats, storeDailySummary  *)
(* and the closing of the store.                                           *)
(*                                                                         *)
(* A calendar date "YYYY-MM-DD" is the triple <<year, month, day>>; SQL's  *)
(* text comparison of two such strings is the lexicographic comparison of  *)
(* the triples.  A JavaScript Date is an integer number of clock ticks     *)
(* since 1970-01-01T00:00Z, with TicksPerDay ticks to the day.             *)
(***************************************************************************)
EXTENDS Integers, Sequences, FiniteSets, TLC

\* ---------------------------------------------------------------- bounds
MaxDay == 2         \* the clock runs from the first day to MaxDay days later
TicksPerDay == 2    \* instants of the clock per calendar day
MaxRuns == 3        \* runs of the job in one behaviour
MaxCount == 1       \* largest download counter the feed reports (Spec)
MaxTotal == 10      \* largest download counter the feed reports (SpecBackfill)
MaxGap == 4         \* largest number of days between two runs (SpecBackfill)
MaxRequests == 3    \* fetches the chart starts in one behaviour

RunIds == {1, 2}
NoDate == <<>>

\* ------------------------------------------------------------- calendar
\* Date.UTC(year, month - 1, day) in days since 1970-01-01; a day past the
\* end of the month carries into the next month as in ECMAScript MakeDay.
DaysFromCivil(y0, m, d) ==
  LET y   == IF m <= 2 THEN y0 - 1 ELSE y0
      era == y \div 400
      yoe == y - era * 400
      mp  == IF m > 2 THEN m - 3 ELSE m + 9
      doy == (153 * mp + 2) \div 5 + d - 1
      doe == yoe * 365 + yoe \div 4 - yoe \div 100 + doy
  IN era * 146097 + doe - 719468

\* The calendar date of a day number (the date part of Date.toISOString).
CivilFromDays(z0) ==
  LET z   == z0 + 719468
      era == z \div 146097
      doe == z - era * 146097
      yoe == (doe - doe \div 1460 + doe \div 36524 - doe \div 146096) \div 365
      doy == doe - (365 * yoe + yoe \div 4 - yoe \div 100)
      mp  == (5 * doy + 2) \div 153
      d   == doy - (153 * mp + 2) \div 5 + 1
      m   == IF mp < 10 THEN mp + 3 ELSE mp - 9
      y   == yoe + era * 400
  IN <<IF m <= 2 THEN y + 1 ELSE y, m, d>>

formatDate(date) == CivilFromDays(date \div TicksPerDay)

parseDate(value) == DaysFromCivil(value[1], value[2], value[3]) * TicksPerDay

\* date.setUTCDate(date.getUTCDate() + days) on a Date, then formatDate
setUTCDate(date, days) ==
  LET c == CivilFromDays(date \div TicksPerDay)
  IN DaysFromCivil(c[1], c[2], c[3] + days) * TicksPerDay + (date % TicksPerDay)

addDays(dateString, days) == formatDate(setUTCDate(parseDate(dateString), days))

\* Math.round of the quotient a / b, b > 0 (halves round up)
MathRound(a, b) == (2 * a + b) \div (2 * b)

\* (variant: neither end counted)
daysBetweenExclusiveExclusive(startDateString, endDateString) ==
  MathRound(parseDate(endDateString) - parseDate(startDateString), TicksPerDay) - 1

\* (variant: both ends counted)
daysBetweenInclusiveInclusive(startDateString, endDateString) ==
  MathRound(parseDate(endDateString) - parseDate(startDateString), TicksPerDay) + 1

daysBetweenExclusiveInclusive(startDateString, endDateString) ==
  MathRound(parseDate(endDateString) - parseDate(startDateString), TicksPerDay)

\* SQL text comparison a < b of two dates
DateLess(a, b) ==
  \/ a[1] < b[1]
  \/ a[1] = b[1] /\ a[2] < b[2]
  \/ a[1] = b[1] /\ a[2] = b[2] /\ a[3] < b[3]

FirstDay == DaysFromCivil(2024, 2, 28)

\* -------------------------------------------------------- configuration
\* An environment variable is a sequence of characters; an unset variable
\* and the empty string are both <<>> (both are falsy under `||`).
Lower(c) ==
  CASE c = "N" -> "n" [] c = "O" -> "o" [] c = "E" -> "e" [] OTHER -> c

toLowerCase(s) == [i \in 1..Len(s) |-> Lower(s[i])]

IsDigit(c) == c \in {"0", "1", "2", "3", "4", "5", "6", "7", "8", "9"}

DigitValue(c) ==
  CASE c = "0" -> 0 [] c = "1" -> 1 [] c = "2" -> 2 [] c = "3" -> 3
    [] c = "4" -> 4 [] c = "5" -> 5 [] c = "6" -> 6 [] c = "7" -> 7
    [] c = "8" -> 8 [] c = "9" -> 9

RECURSIVE ParseDigits(_, _)
ParseDigits(s, acc) ==
  IF s = <<>> \/ ~IsDigit(Head(s)) THEN acc
  ELSE ParseDigits(Tail(s), 10 * acc + DigitValue(Head(s)))

\* Number.parseInt(s, 10): the leading decimal digits of s, NaN if none
parseInt(s) ==
  IF s = <<>> \/ ~IsDigit(Head(s)) THEN [nan |-> TRUE, value |-> 0]
  ELSE [nan |-> FALSE, value |-> ParseDigits(s, 0)]

\* the JavaScript comparison a < b of an integer with a Number
\* (variant: the threshold is taken one day too low)
LessThanNumberOffByOne(a, b) == ~b.nan /\ a + 1 < b.value

LessThanNumber(a, b) == ~b.nan /\ a < b.value

STRATEGY_EVEN == <<"e", "v", "e", "n">>
STRATEGY_NONE == <<"n", "o", "n", "e">>
STRATEGY_PATTERN == <<"p", "a", "t", "t", "e", "r", "n">>
STRATEGY_STOCHASTIC == <<"s", "t", "o", "c", "h", "a", "s", "t", "i", "c">>

EnvStrategies ==
  {<<>>, <<"N", "O", "N", "E">>, STRATEGY_EVEN, STRATEGY_PATTERN, STRATEGY_STOCHASTIC}

EnvMinGaps == {<<>>, <<"1">>, <<"3">>, <<"x">>}

\* the configurations of Spec
SpecStrategies == {<<>>, <<"N", "O", "N", "E">>}
SpecMinGaps == {<<>>, <<"x">>}

VARIABLES
  now,                \* the clock, in ticks since 1970-01-01T00:00Z
  envStrategy,        \* process.env.BACKFILL_STRATEGY
  envMinGap,          \* process.env.BACKFILL_MIN_GAP_DAYS
  asset_daily_stats,  \* rows [asset_id, date, download_count]
  daily_summary,      \* rows [date, downloads_delta, fetch_timestamp]
  pc,                 \* position of each run of main()
  releases,           \* what fetchGitHubReleases returned to the run
  fetchOk,            \* whether the fetch of the run succeeded
  statsDate,          \* `today` of storeDailyStats
  todayDate,          \* `todayDate` of storeDailySummary
  lastSnapshotDate,   \* `lastSnapshotDate` of storeDailySummary
  branch,             \* the branch storeDailySummary took
  totalDelta,         \* the delta storeDailySummary computed
  plan,               \* the (date, value) pairs storeDailySummary upserts
  failed,             \* the error the run's catch block logged, if any
  exitCode,           \* exit status of the finished run
  preStats,           \* asset_daily_stats when the run started
  preSummary,         \* daily_summary when the run started
  prior,              \* the run completed last before this run started
  last,               \* the run completed last
  closeFailed,        \* whether db.close() threw in the run's finally block
  runs,               \* number of runs started
  response,           \* the last response of a read route
  timeframe,          \* DailyDownloadsChart: the selected timeframe
  loading,            \* DailyDownloadsChart: the loading flag
  chartError,         \* DailyDownloadsChart: the error shown, "null" if none
  requests,           \* DailyDownloadsChart: the fetches its effect started
  dateNow,            \* the browser's clock: <<day number, ms of the day>>
  countdown           \* NextUpdateCountdown: what it computed when mounted

vars == <<now, envStrategy, envMinGap, asset_daily_stats, daily_summary, pc,
          releases, fetchOk, statsDate, todayDate, lastSnapshotDate, branch,
          totalDelta, plan, failed, exitCode, preStats, preSummary, prior,
          last, closeFailed, runs, response, timeframe, loading, chartError,
          requests, dateNow, countdown>>

\* the state of the dashboard: the read routes and the components
dashboard == <<response, timeframe, loading, chartError, requests, dateNow, countdown>>

backfillStrategy == toLowerCase(IF envStrategy = <<>> THEN STRATEGY_EVEN ELSE envStrategy)

backfillMinimumGapDays == parseInt(IF envMinGap = <<>> THEN <<"2">> ELSE envMinGap)

\* ----------------------------------------------------------------- store
RECURSIVE SumOver(_, _)
\* SUM(f) over a set of rows
SumOver(rows, f) ==
  IF rows = {} THEN 0
  ELSE LET row == CHOOSE x \in rows : TRUE
       IN f[row] + SumOver(rows \ {row}, f)

\* INSERT OR REPLACE INTO asset_daily_stats: primary key (asset_id, date)
InsertStats(table, row) ==
  {x \in table : ~(x.asset_id = row.asset_id /\ x.date = row.date)} \cup {row}

RECURSIVE InsertAllStats(_, _, _)
InsertAllStats(table, assets, date) ==
  IF assets = {} THEN table
  ELSE LET asset == CHOOSE x \in assets : TRUE
       IN InsertAllStats(
            InsertStats(table, [asset_id |-> asset.id, date |-> date,
                                download_count |-> asset.download_count]),
            assets \ {asset}, date)

\* strftime('%Y-%m-%dT%H:%M:%fZ', 'now'): the date and the instant of the day
Timestamp(t) == <<formatDate(t), t % TicksPerDay>>

\* (variant: the value is added to the delta already stored for the date)
UpsertAccumulating(table, date, value, t) ==
  LET old == {x \in table : x.date = date}
      sum == IF old = {} THEN value
             ELSE (CHOOSE x \in old : TRUE).downloads_delta + value
  IN (table \ old)
       \cup {[date |-> date, downloads_delta |-> sum, fetch_timestamp |-> Timestamp(t)]}

\* (variant: a row that exists keeps its fetch_timestamp)
UpsertKeepingTimestamp(table, date, value, t) ==
  LET old == {x \in table : x.date = date}
      ts == IF old = {} THEN Timestamp(t)
            ELSE (CHOOSE x \in old : TRUE).fetch_timestamp
  IN (table \ old)
       \cup {[date |-> date, downloads_delta |-> value, fetch_timestamp |-> ts]}

\* INSERT OR REPLACE INTO daily_summary (date, downloads_delta): primary key
\* date, fetch_timestamp takes its default
Upsert(table, date, value, t) ==
  {x \in table : x.date # date}
    \cup {[date |-> date, downloads_delta |-> value, fetch_timestamp |-> Timestamp(t)]}

RECURSIVE UpsertAll(_, _, _)
UpsertAll(table, pairs, t) ==
  IF pairs = <<>> THEN table
  ELSE UpsertAll(Upsert(table, Head(pairs)[1], Head(pairs)[2], t), Tail(pairs), t)

\* (variant: what fn wrote before it threw stays written)
TransactionWithoutRollback(before, written, threw) == written

\* db.transaction(fn): commits what fn wrote when fn returns, rolls back to
\* the state before when fn throws
Transaction(before, written, threw) == IF threw THEN before ELSE written

\* (variant: today's total minus the older total, as the job computed it before
\* it kept per-asset snapshots)
DeltaSubtractingTotals(table, oldDate, newDate) ==
  LET new == {x \in table : x.date = newDate}
      old == {x \in table : x.date = oldDate}
  IN SumOver(new, [x \in new |-> x.download_count])
       - SumOver(old, [x \in old |-> x.download_count])

\* (variant: JOIN instead of LEFT JOIN, an asset without a row on oldDate is
\* left out)
DeltaInnerJoin(table, oldDate, newDate) ==
  LET new == {x \in table : x.date = newDate
                /\ \E o \in table : o.asset_id = x.asset_id /\ o.date = oldDate}
      contribution == [x \in new |->
        x.download_count
          - (CHOOSE o \in table : o.asset_id = x.asset_id /\ o.date = oldDate).download_count]
  IN SumOver(new, contribution)

\* The delta query: over the rows of newDate, LEFT JOIN the row of the same
\* asset on oldDate; COALESCE(SUM(...), 0)
Delta(table, oldDate, newDate) ==
  LET new == {x \in table : x.date = newDate}
      contribution == [x \in new |->
        LET old == {o \in table : o.asset_id = x.asset_id /\ o.date = oldDate}
        IN IF old = {} THEN x.download_count
           ELSE x.download_count - (CHOOSE o \in old : TRUE).download_count]
  IN SumOver(new, contribution)

\* (variant: WHERE date <= today)
LastSnapshotBeforeInclusive(table, today) ==
  LET dates == {x.date : x \in {y \in table : y.date = today \/ DateLess(y.date, today)}}
  IN IF dates = {} THEN NoDate
     ELSE CHOOSE d \in dates : \A e \in dates : e = d \/ DateLess(e, d)

\* SELECT MAX(date) FROM asset_daily_stats WHERE date < today; NoDate if NULL
LastSnapshotBefore(table, today) ==
  LET dates == {x.date : x \in {y \in table : DateLess(y.date, today)}}
  IN IF dates = {} THEN NoDate
     ELSE CHOOSE d \in dates : \A e \in dates : e = d \/ DateLess(e, d)

\* Math.floor(a / n) and the JavaScript remainder a % n (sign of a), n > 0
MathFloorDiv(a, n) == a \div n
JsRemainder(a, n) == IF a >= 0 THEN a % n ELSE 0 - ((0 - a) % n)

\* (variant: one day too many takes part in the remainder)
EvenPlanRemainderOffByOne(last_date, gapDays, total) ==
  LET gapDates == [i \in 1..gapDays |-> addDays(last_date, i)]
      base == IF gapDays > 0 THEN MathFloorDiv(total, gapDays) ELSE 0
      remainder == IF gapDays > 0 THEN JsRemainder(total, gapDays) ELSE 0
  IN [i \in 1..gapDays |-> <<gapDates[i], base + (IF i - 1 <= remainder THEN 1 ELSE 0)>>]

\* (variant: the remainder goes to the latest days)
EvenPlanRemainderLast(last_date, gapDays, total) ==
  LET gapDates == [i \in 1..gapDays |-> addDays(last_date, i)]
      base == IF gapDays > 0 THEN MathFloorDiv(total, gapDays) ELSE 0
      remainder == IF gapDays > 0 THEN JsRemainder(total, gapDays) ELSE 0
  IN [i \in 1..gapDays |->
        <<gapDates[i], base + (IF i - 1 >= gapDays - remainder THEN 1 ELSE 0)>>]

\* (variant: the dates start at the last snapshot's date)
EvenPlanFromLastDate(last_date, gapDays, total) ==
  LET gapDates == [i \in 1..gapDays |-> addDays(last_date, i - 1)]
      base == IF gapDays > 0 THEN MathFloorDiv(total, gapDays) ELSE 0
      remainder == IF gapDays > 0 THEN JsRemainder(total, gapDays) ELSE 0
  IN [i \in 1..gapDays |-> <<gapDates[i], base + (IF i - 1 < remainder THEN 1 ELSE 0)>>]

\* (variant: the remainder is dropped)
EvenPlanWithoutRemainder(last_date, gapDays, total) ==
  LET gapDates == [i \in 1..gapDays |-> addDays(last_date, i)]
      base == IF gapDays > 0 THEN MathFloorDiv(total, gapDays) ELSE 0
  IN [i \in 1..gapDays |-> <<gapDates[i], base>>]

\* the pairs the backfill transaction upserts, in order
EvenPlan(last_date, gapDays, total) ==
  LET gapDates == [i \in 1..gapDays |-> addDays(last_date, i)]
      base == IF gapDays > 0 THEN MathFloorDiv(total, gapDays) ELSE 0
      remainder == IF gapDays > 0 THEN JsRemainder(total, gapDays) ELSE 0
  IN [i \in 1..gapDays |-> <<gapDates[i], base + (IF i - 1 < remainder THEN 1 ELSE 0)>>]

\* ------------------------------------------------------------------ feed
\* what the releases API may report: some of the assets, each with a counter
Feeds(assets, maxCount) ==
  UNION {{{[id |-> a, download_count |-> f[a]] : a \in S} : f \in [S -> 0..maxCount]}
         : S \in SUBSET assets}

\* ------------------------------------------------------------------ runs
NoRun == [ok |-> FALSE, fetchOk |-> FALSE, statsDate |-> NoDate, todayDate |-> NoDate]

config == <<envStrategy, envMinGap>>
store == <<asset_daily_stats, daily_summary>>
summaryLocals == <<todayDate, lastSnapshotDate, branch, totalDelta, plan>>
ghosts == <<preStats, preSummary, prior, last>>

NoResponse == [route |-> "none", status |-> 0, body |-> <<>>]

NoCountdown == [mountedAt |-> <<>>, target |-> <<>>, remaining |-> 0]

\* the dashboard before any request and before its components mount:
\* useState(true) for loading, useState('1month') for timeframe
InitDashboard ==
  /\ response = NoResponse
  /\ timeframe = "1month"
  /\ loading = TRUE
  /\ chartError = "null"
  /\ requests = <<>>
  /\ dateNow = <<FirstDay, 0>>
  /\ countdown = NoCountdown

InitRuns ==
  /\ InitDashboard
  /\ pc = [r \in RunIds |-> "idle"]
  /\ releases = [r \in RunIds |-> {}]
  /\ fetchOk = [r \in RunIds |-> FALSE]
  /\ statsDate = [r \in RunIds |-> NoDate]
  /\ todayDate = [r \in RunIds |-> NoDate]
  /\ lastSnapshotDate = [r \in RunIds |-> NoDate]
  /\ branch = [r \in RunIds |-> "unset"]
  /\ totalDelta = [r \in RunIds |-> 0]
  /\ plan = [r \in RunIds |-> <<>>]
  /\ failed = [r \in RunIds |-> "no"]
  /\ exitCode = [r \in RunIds |-> -1]
  /\ closeFailed = [r \in RunIds |-> FALSE]
  /\ preStats = [r \in RunIds |-> {}]
  /\ preSummary = [r \in RunIds |-> {}]
  /\ prior = [r \in RunIds |-> NoRun]

\* The job has never run: the store is empty.
Init ==
  /\ now = FirstDay * TicksPerDay
  /\ envStrategy \in SpecStrategies
  /\ envMinGap \in SpecMinGaps
  /\ asset_daily_stats = {}
  /\ daily_summary = {}
  /\ InitRuns
  /\ last = NoRun
  /\ runs = 0

\* The clock advances between runs, and between storeDailyStats and
\* storeDailySummary.  (Time that passes before storeDailyStats reads the clock
\* is time that passed before the run started; storeDailySummary's upsert
\* follows its queries at once.)
ClockAdvances(t) ==
  /\ t > now
  /\ t < (FirstDay + MaxDay + 1) * TicksPerDay
  /\ \A r \in RunIds : pc[r] \in {"idle", "done", "summary"}
  /\ now' = t
  /\ UNCHANGED <<config, dashboard, store, pc, releases, fetchOk, statsDate, summaryLocals,
                 failed, exitCode, ghosts, closeFailed, runs>>

\* to the next instant
Tick == ClockAdvances(now + 1)

\* to midnight
NextDay == ClockAdvances((now \div TicksPerDay + 1) * TicksPerDay)

\* A run of main() starts: setupDatabase (the tables exist already or are
\* created empty) and fetchGitHubReleases, which returns the releases' assets
\* or, on a network error or a non-OK response, [].
FetchGitHubReleases(r, feeds) ==
  /\ pc[r] \in {"idle", "done"}
  /\ runs < MaxRuns
  /\ runs' = runs + 1
  /\ \E ok \in BOOLEAN :
       /\ fetchOk' = [fetchOk EXCEPT ![r] = ok]
       /\ IF ok THEN \E feed \in feeds : releases' = [releases EXCEPT ![r] = feed]
          ELSE releases' = [releases EXCEPT ![r] = {}]
  /\ pc' = [pc EXCEPT ![r] = "stats"]
  /\ statsDate' = [statsDate EXCEPT ![r] = NoDate]
  /\ todayDate' = [todayDate EXCEPT ![r] = NoDate]
  /\ lastSnapshotDate' = [lastSnapshotDate EXCEPT ![r] = NoDate]
  /\ branch' = [branch EXCEPT ![r] = "unset"]
  /\ totalDelta' = [totalDelta EXCEPT ![r] = 0]
  /\ plan' = [plan EXCEPT ![r] = <<>>]
  /\ failed' = [failed EXCEPT ![r] = "no"]
  /\ exitCode' = [exitCode EXCEPT ![r] = -1]
  /\ closeFailed' = [closeFailed EXCEPT ![r] = FALSE]
  /\ preStats' = [preStats EXCEPT ![r] = asset_daily_stats]
  /\ preSummary' = [preSummary EXCEPT ![r] = daily_summary]
  /\ prior' = [prior EXCEPT ![r] = last]
  /\ UNCHANGED <<now, config, dashboard, store, last>>

\* storeDailyStats(releases): one transaction upserting a row per asset under
\* today's date; a store error rolls it back and reaches main's catch.
StoreDailyStats(r) ==
  /\ pc[r] = "stats"
  /\ LET today == formatDate(now)
         written == InsertAllStats(asset_daily_stats, releases[r], today)
     IN /\ statsDate' = [statsDate EXCEPT ![r] = today]
        /\ \E threw \in BOOLEAN :
             /\ asset_daily_stats' = Transaction(asset_daily_stats, written, threw)
             /\ pc' = [pc EXCEPT ![r] = IF threw THEN "finally" ELSE "summary"]
             /\ failed' = [failed EXCEPT ![r] = IF threw THEN "stats" ELSE "no"]
  /\ UNCHANGED <<now, config, dashboard, daily_summary, releases, fetchOk, summaryLocals,
                 exitCode, ghosts, closeFailed, runs>>

\* (variant: every strategy but even is taken as none)
SummaryPlanEvenOnly(table, today) ==
  LET today_date == formatDate(today)
      yesterday_none == formatDate(setUTCDate(today, -1))
      last_date == LastSnapshotBefore(table, today_date)
      gapDays == daysBetweenExclusiveInclusive(last_date, today_date)
      yesterday_small == addDays(today_date, -1)
      total == Delta(table, last_date, today_date)
  IN IF backfillStrategy # STRATEGY_EVEN THEN
       [branch |-> "none", last_date |-> NoDate,
        delta |-> Delta(table, yesterday_none, today_date),
        pairs |-> <<<<today_date, Delta(table, yesterday_none, today_date)>>>>]
     ELSE IF last_date = NoDate THEN
       [branch |-> "first", last_date |-> NoDate, delta |-> 0,
        pairs |-> <<<<today_date, 0>>>>]
     ELSE IF gapDays <= 0 THEN
       [branch |-> "invalid", last_date |-> last_date, delta |-> 0, pairs |-> <<>>]
     ELSE IF LessThanNumber(gapDays, backfillMinimumGapDays) THEN
       [branch |-> "small", last_date |-> last_date,
        delta |-> Delta(table, yesterday_small, today_date),
        pairs |-> <<<<today_date, Delta(table, yesterday_small, today_date)>>>>]
     ELSE
       [branch |-> "backfill", last_date |-> last_date, delta |-> total,
        pairs |-> EvenPlan(last_date, gapDays, total)]

\* storeDailySummary() up to its upsert: the branch, the dates and the values
\* to write; an error thrown here reaches main's catch.
SummaryPlan(table, today) ==
  LET today_date == formatDate(today)
      yesterday_none == formatDate(setUTCDate(today, -1))
      last_date == LastSnapshotBefore(table, today_date)
      gapDays == daysBetweenExclusiveInclusive(last_date, today_date)
      yesterday_small == addDays(today_date, -1)
      total == Delta(table, last_date, today_date)
  IN IF backfillStrategy = STRATEGY_NONE THEN
       [branch |-> "none", last_date |-> NoDate,
        delta |-> Delta(table, yesterday_none, today_date),
        pairs |-> <<<<today_date, Delta(table, yesterday_none, today_date)>>>>]
     ELSE IF last_date = NoDate THEN
       [branch |-> "first", last_date |-> NoDate, delta |-> 0,
        pairs |-> <<<<today_date, 0>>>>]
     ELSE IF gapDays <= 0 THEN
       [branch |-> "invalid", last_date |-> last_date, delta |-> 0, pairs |-> <<>>]
     ELSE IF LessThanNumber(gapDays, backfillMinimumGapDays) THEN
       [branch |-> "small", last_date |-> last_date,
        delta |-> Delta(table, yesterday_small, today_date),
        pairs |-> <<<<today_date, Delta(table, yesterday_small, today_date)>>>>]
     ELSE
       [branch |-> "backfill", last_date |-> last_date, delta |-> total,
        pairs |-> EvenPlan(last_date, gapDays, total)]

StoreDailySummaryRead(r) ==
  /\ pc[r] = "summary"
  /\ todayDate' = [todayDate EXCEPT ![r] = formatDate(now)]
  /\ \E threw \in BOOLEAN :
       LET p == SummaryPlan(asset_daily_stats, now)
       IN IF threw \/ p.branch = "invalid"
          THEN /\ pc' = [pc EXCEPT ![r] = "finally"]
               /\ failed' = [failed EXCEPT ![r] = IF threw THEN "query" ELSE "gap"]
               /\ UNCHANGED <<lastSnapshotDate, branch, totalDelta, plan>>
          ELSE /\ pc' = [pc EXCEPT ![r] = "write"]
               /\ lastSnapshotDate' = [lastSnapshotDate EXCEPT ![r] = p.last_date]
               /\ branch' = [branch EXCEPT ![r] = p.branch]
               /\ totalDelta' = [totalDelta EXCEPT ![r] = p.delta]
               /\ plan' = [plan EXCEPT ![r] = p.pairs]
               /\ UNCHANGED failed
  /\ UNCHANGED <<now, config, dashboard, store, releases, fetchOk, statsDate, exitCode,
                 ghosts, closeFailed, runs>>

\* The upsert(s) of storeDailySummary: one statement on the single-row
\* branches, one transaction over the gap dates on the backfill branch.  The
\* k-th upsert.run may throw (k = 0: none does).
StoreDailySummaryWrite(r) ==
  /\ pc[r] = "write"
  /\ \E k \in 0..Len(plan[r]) :
       LET done == IF k = 0 THEN plan[r] ELSE SubSeq(plan[r], 1, k - 1)
           written == UpsertAll(daily_summary, done, now)
       IN /\ daily_summary' = IF branch[r] = "backfill"
                              THEN Transaction(daily_summary, written, k # 0)
                              ELSE written
          /\ failed' = [failed EXCEPT ![r] = IF k = 0 THEN "no" ELSE "write"]
  /\ pc' = [pc EXCEPT ![r] = "finally"]
  /\ UNCHANGED <<now, config, dashboard, asset_daily_stats, releases, fetchOk, statsDate,
                 summaryLocals, exitCode, ghosts, closeFailed, runs>>

\* The exit status of the process: main's catch block logs every error, so
\* no rejection is left unhandled and process.exitCode is never set.
ExitStatus(error) == 0

\* (variant: an error of db.close() is not caught and fails the run)
CloseRethrowing(r) ==
  /\ pc[r] = "finally"
  /\ \E threw \in BOOLEAN :
       /\ closeFailed' = [closeFailed EXCEPT ![r] = threw]
       /\ failed' = [failed EXCEPT ![r] = IF threw THEN "close" ELSE failed[r]]
       /\ exitCode' = [exitCode EXCEPT ![r] = IF threw THEN 1 ELSE ExitStatus(failed[r])]
  /\ pc' = [pc EXCEPT ![r] = "done"]
  /\ last' = [ok |-> failed[r] = "no", fetchOk |-> fetchOk[r],
              statsDate |-> statsDate[r], todayDate |-> todayDate[r]]
  /\ UNCHANGED <<now, config, dashboard, store, releases, fetchOk, statsDate, summaryLocals,
                 preStats, preSummary, prior, runs>>

\* main's finally block: db.close(), whose error is logged, and the process
\* ends.
Close(r) ==
  /\ pc[r] = "finally"
  /\ \E threw \in BOOLEAN : closeFailed' = [closeFailed EXCEPT ![r] = threw]
  /\ exitCode' = [exitCode EXCEPT ![r] = ExitStatus(failed[r])]
  /\ pc' = [pc EXCEPT ![r] = "done"]
  /\ last' = [ok |-> failed[r] = "no", fetchOk |-> fetchOk[r],
              statsDate |-> statsDate[r], todayDate |-> todayDate[r]]
  /\ UNCHANGED <<now, config, dashboard, store, releases, fetchOk, statsDate, summaryLocals,
                 failed, preStats, preSummary, prior, runs>>

Next ==
  \/ NextDay
  \/ FetchGitHubReleases(1, Feeds({1}, MaxCount))
  \/ StoreDailyStats(1)
  \/ StoreDailySummaryRead(1)
  \/ StoreDailySummaryWrite(1)
  \/ Close(1)

Spec == Init /\ [][Next]_vars


\* ------------------------------------------------- one run after a gap
\* SpecBackfill: the job ran once, on the first day, with feed f0 and
\* completed; it runs again 1..MaxGap days later.  Counters range to MaxTotal.
WideFeeds == {f1 \cup f2 : f1 \in Feeds({1}, MaxTotal), f2 \in Feeds({2}, MaxCount)}

InitBackfill ==
  /\ envStrategy \in EnvStrategies
  /\ envMinGap \in EnvMinGaps
  /\ \E f0 \in WideFeeds, g \in 1..MaxGap :
       LET t0 == FirstDay * TicksPerDay
           stats0 == InsertAllStats({}, f0, formatDate(t0))
       IN /\ now = (FirstDay + g) * TicksPerDay
          /\ asset_daily_stats = stats0
          /\ daily_summary = UpsertAll({}, SummaryPlan(stats0, t0).pairs, t0)
          /\ last = [ok |-> TRUE, fetchOk |-> TRUE, statsDate |-> formatDate(t0),
                      todayDate |-> formatDate(t0)]
  /\ InitRuns
  /\ runs = MaxRuns - 1

NextBackfill ==
  \/ FetchGitHubReleases(1, WideFeeds)
  \/ StoreDailyStats(1)
  \/ StoreDailySummaryRead(1)
  \/ StoreDailySummaryWrite(1)
  \/ Close(1)

SpecBackfill == InitBackfill /\ [][NextBackfill]_vars

\* ------------------------------------------ runs at different times of day
\* SpecRerun: the job ran once, on the first day, and completed; it runs
\* twice more, at any instants of the days that follow.
InitRerun ==
  /\ envStrategy \in SpecStrategies
  /\ envMinGap \in SpecMinGaps
  /\ \E f0 \in Feeds({1}, MaxCount), g \in 1..MaxDay :
       LET t0 == FirstDay * TicksPerDay
           stats0 == InsertAllStats({}, f0, formatDate(t0))
       IN /\ now = (FirstDay + g) * TicksPerDay
          /\ asset_daily_stats = stats0
          /\ daily_summary = UpsertAll({}, SummaryPlan(stats0, t0).pairs, t0)
          /\ last = [ok |-> TRUE, fetchOk |-> TRUE, statsDate |-> formatDate(t0),
                      todayDate |-> formatDate(t0)]
  /\ InitRuns
  /\ runs = MaxRuns - 2

NextRerun ==
  \/ Tick
  \/ FetchGitHubReleases(1, Feeds({1}, MaxCount))
  \/ StoreDailyStats(1)
  \/ StoreDailySummaryRead(1)
  \/ StoreDailySummaryWrite(1)
  \/ Close(1)

SpecRerun == InitRerun /\ [][NextRerun]_vars

\* ------------------------------------------------- the store never fails
\* SpecHealthy: as Spec, with a store that raises no error.
NoStoreError == \A r \in RunIds : failed'[r] = "no" /\ ~closeFailed'[r]

NextHealthy ==
  \/ NextDay
  \/ FetchGitHubReleases(1, Feeds({1}, MaxCount))
  \/ StoreDailyStats(1) /\ NoStoreError
  \/ StoreDailySummaryRead(1) /\ NoStoreError
  \/ StoreDailySummaryWrite(1) /\ NoStoreError
  \/ Close(1) /\ NoStoreError

SpecHealthy == Init /\ [][NextHealthy]_vars

\* ------------------------------------------------------ two runs at once
\* SpecOverlap: the job ran once, on the first day, and completed; 1..MaxDay
\* days later two processes run it, their store operations interleaved in
\* any order (each statement or transaction of better-sqlite3 is atomic).
InitOverlap == InitRerun

NextOverlap ==
  \/ FetchGitHubReleases(1, Feeds({1}, MaxCount))
  \/ FetchGitHubReleases(2, Feeds({1}, MaxCount))
  \/ StoreDailyStats(1) /\ NoStoreError
  \/ StoreDailyStats(2) /\ NoStoreError
  \/ StoreDailySummaryRead(1) /\ NoStoreError
  \/ StoreDailySummaryRead(2) /\ NoStoreError
  \/ StoreDailySummaryWrite(1) /\ NoStoreError
  \/ StoreDailySummaryWrite(2) /\ NoStoreError
  \/ Close(1) /\ NoStoreError
  \/ Close(2) /\ NoStoreError

SpecOverlap == InitOverlap /\ [][NextOverlap]_vars

\* ------------------------------------------- a run after a history of runs
\* SpecPattern: BACKFILL_STRATEGY is pattern; the job ran and completed on
\* each of the first MaxDay + 1 days; it runs again 1..MaxGap days later.
PatternStrategies == {STRATEGY_PATTERN, <<"P", "a", "t", "t", "e", "r", "n">>}
PatternMinGaps == {<<>>, <<"3">>}

\* the store after runs of main() without an error, one a day from the first
\* day on, the i-th with feed feeds[i]
RECURSIVE StoreAfterRuns(_, _, _, _)
StoreAfterRuns(feeds, i, stats, summary) ==
  IF i > Len(feeds) THEN [stats |-> stats, summary |-> summary]
  ELSE LET t == (FirstDay + i - 1) * TicksPerDay
           stats1 == InsertAllStats(stats, feeds[i], formatDate(t))
       IN StoreAfterRuns(feeds, i + 1, stats1,
                         UpsertAll(summary, SummaryPlan(stats1, t).pairs, t))

InitPattern ==
  /\ envStrategy \in PatternStrategies
  /\ envMinGap \in PatternMinGaps
  /\ \E feeds \in [1..(MaxDay + 1) -> Feeds({1}, MaxCount)], g \in 1..MaxGap :
       LET s == StoreAfterRuns(feeds, 1, {}, {})
           t0 == (FirstDay + MaxDay) * TicksPerDay
       IN /\ now = (FirstDay + MaxDay + g) * TicksPerDay
          /\ asset_daily_stats = s.stats
          /\ daily_summary = s.summary
          /\ last = [ok |-> TRUE, fetchOk |-> TRUE, statsDate |-> formatDate(t0),
                      todayDate |-> formatDate(t0)]
  /\ InitRuns
  /\ runs = MaxRuns - 1

NextPattern ==
  \/ FetchGitHubReleases(1, Feeds({1}, MaxTotal))
  \/ StoreDailyStats(1)
  \/ StoreDailySummaryRead(1)
  \/ StoreDailySummaryWrite(1)
  \/ Close(1)

SpecPattern == InitPattern /\ [][NextPattern]_vars

\* ------------------------------------------------------------ read routes
\* everything the fetch job keeps, beside the tables and its configuration
job == <<pc, releases, fetchOk, statsDate, summaryLocals, failed, exitCode,
         ghosts, closeFailed, runs>>

chart == <<timeframe, loading, chartError, requests>>

\* ?timeframe= may be absent, one of the known values, or anything else
RawTimeframes == {"", "1week", "1month", "3months", "all", "1year"}

\* fs.existsSync(dbPath): the file is there once the job has opened it
DbFileExists == runs > 0

\* the tables setupDatabase creates
Tables == {"asset_daily_stats", "daily_summary"}

\* Date.setMonth(getMonth() - months): the same day of the month, rolled over
\* into the next month when the month is shorter (the server runs in UTC)
setMonth(date, months) ==
  LET c == CivilFromDays(date \div TicksPerDay)
      m0 == c[1] * 12 + (c[2] - 1) - months
  IN DaysFromCivil(m0 \div 12, (m0 % 12) + 1, c[3]) * TicksPerDay + (date % TicksPerDay)

\* the daily downloads route's dateThreshold; NoDate for ''
dateThreshold(tf, today) ==
  CASE tf = "1week" -> formatDate(setUTCDate(today, -7))
    [] tf = "1month" -> formatDate(setMonth(today, 1))
    [] tf = "3months" -> formatDate(setMonth(today, 3))
    [] OTHER -> NoDate

\* ORDER BY date ASC
RECURSIVE OrderByDate(_)
OrderByDate(rows) ==
  IF rows = {} THEN <<>>
  ELSE LET first == CHOOSE x \in rows : \A y \in rows : y = x \/ DateLess(x.date, y.date)
       IN <<first>> \o OrderByDate(rows \ {first})

\* SELECT date, downloads_delta, fetch_timestamp FROM daily_summary
\* [WHERE date >= ?] ORDER BY date ASC, mapped to the response format
SelectDailySummary(table, threshold) ==
  LET rows == OrderByDate(IF threshold = NoDate THEN table
                          ELSE {x \in table : ~DateLess(x.date, threshold)})
  IN [i \in 1..Len(rows) |->
        [date |-> rows[i].date, downloadsDelta |-> rows[i].downloads_delta,
         fetchTimestamp |-> rows[i].fetch_timestamp]]

Respond(route, status, body) ==
  response' = [route |-> route, status |-> status, body |-> body]

\* (variant: the route writes a zero row for today when there is none)
GetDailyDownloadsFilling(rawTimeframe) ==
  /\ LET tf == IF rawTimeframe = "" THEN "all" ELSE rawTimeframe
         filled == IF \E x \in daily_summary : x.date = formatDate(now)
                   THEN daily_summary
                   ELSE Upsert(daily_summary, formatDate(now), 0, now)
     IN \E threw \in BOOLEAN :
          IF ~DbFileExists \/ threw
          THEN Respond("daily", 500, <<>>) /\ UNCHANGED daily_summary
          ELSE /\ Respond("daily", 200, SelectDailySummary(filled, dateThreshold(tf, now)))
               /\ daily_summary' = filled
  /\ UNCHANGED <<now, config, asset_daily_stats, job, chart, dateNow, countdown>>

\* GET /api/downloads/daily: 500 when the database file is missing or the
\* query throws, else the rows of daily_summary from the threshold on; the
\* connection is opened read-only and closed in finally.
GetDailyDownloads(rawTimeframe) ==
  /\ LET tf == IF rawTimeframe = "" THEN "all" ELSE rawTimeframe
     IN \E threw \in BOOLEAN :
          IF ~DbFileExists \/ threw
          THEN Respond("daily", 500, <<>>)
          ELSE Respond("daily", 200, SelectDailySummary(daily_summary, dateThreshold(tf, now)))
  /\ UNCHANGED <<now, config, store, job, chart, dateNow, countdown>>

\* GET /api/backfill/events: 500 when the database file is missing; else
\* db.prepare(... FROM backfill_events ...) throws, the job's setupDatabase
\* creating no such table, and the catch block answers 500.
GetBackfillEvents ==
  /\ IF ~DbFileExists \/ "backfill_events" \notin Tables
     THEN Respond("events", 500, <<>>)
     ELSE Respond("events", 200, <<>>)
  /\ UNCHANGED <<now, config, store, job, chart, dateNow, countdown>>

\* SpecRoutes: the job and the requests to the read routes, in any order.
NextRoutes ==
  \/ NextHealthy
  \/ \E rawTimeframe \in RawTimeframes : GetDailyDownloads(rawTimeframe)
  \/ GetBackfillEvents

\* The routes read no environment variable of the job: the job runs with its
\* defaults.
InitRoutes ==
  /\ Init
  /\ envStrategy = <<>>
  /\ envMinGap = <<>>

SpecRoutes == InitRoutes /\ [][NextRoutes]_vars

\* ------------------------------------------------------ DailyDownloadsChart
Timeframes == {"1week", "1month", "3months", "all"}

\* the effect of [timeframe] runs: setLoading(true) and the two fetches, one
\* request of the component, start
StartRequest(before) ==
  /\ loading' = TRUE
  /\ requests' = Append(before, [timeframe |-> timeframe', status |-> "pending"])

\* the component mounts and its effect runs for the first time
MountChart ==
  /\ requests = <<>>
  /\ timeframe' = timeframe
  /\ StartRequest(requests)
  /\ UNCHANGED <<now, config, store, job, response, chartError, dateNow, countdown>>

\* the user selects another timeframe: the cleanup of the last effect aborts
\* its controller, which rejects the fetches still pending, and the effect
\* runs again
SetTimeframe(tf) ==
  /\ requests # <<>>
  /\ Len(requests) < MaxRequests
  /\ tf # timeframe
  /\ timeframe' = tf
  /\ StartRequest([i \in 1..Len(requests) |->
                     IF i = Len(requests) /\ requests[i].status = "pending"
                     THEN [requests[i] EXCEPT !.status = "aborted"]
                     ELSE requests[i]])
  /\ UNCHANGED <<now, config, store, job, response, chartError, dateNow, countdown>>

\* the fetches of request i settle, both ok (setError(null)) or not
\* (setError(message)); finally setLoading(false)
RequestSettles(i) ==
  /\ i \in 1..Len(requests)
  /\ requests[i].status = "pending"
  /\ \E ok \in BOOLEAN : chartError' = IF ok THEN "null" ELSE "HTTP error"
  /\ loading' = FALSE
  /\ requests' = [requests EXCEPT ![i].status = "settled"]
  /\ UNCHANGED <<now, config, store, job, response, timeframe, dateNow, countdown>>

\* the rejection of the aborted request i is handled: the catch block returns
\* on AbortError; finally setLoading(false)
AbortSettles(i) ==
  /\ i \in 1..Len(requests)
  /\ requests[i].status = "aborted"
  /\ loading' = FALSE
  /\ requests' = [requests EXCEPT ![i].status = "settled"]
  /\ UNCHANGED <<now, config, store, job, response, timeframe, chartError, dateNow, countdown>>

NextChart ==
  \/ MountChart
  \/ \E tf \in Timeframes : SetTimeframe(tf)
  \/ \E i \in 1..MaxRequests : RequestSettles(i)
  \/ \E i \in 1..MaxRequests : AbortSettles(i)

SpecChart == Init /\ [][NextChart]_vars

\* ------------------------------------------------------ NextUpdateCountdown
MsPerDay == 86400000

\* 10:49:00.000 as milliseconds of the day
UpdateMs == ((10 * 60 + 49) * 60 + 0) * 1000

\* the instants the browser's clock is read at
Instants ==
  {<<FirstDay + d, ms>> : d \in 0..(MaxDay + 1),
                          ms \in {0, UpdateMs - 1, UpdateMs, UpdateMs + 1, MsPerDay - 1}}

\* a.getTime() - b.getTime()
getTimeDiff(a, b) == (a[1] - b[1]) * MsPerDay + (a[2] - b[2])

\* (variant: now > next)
computeNextUpdateTimeStrict(date) ==
  LET c == CivilFromDays(date[1])
      next == <<DaysFromCivil(c[1], c[2], c[3]), UpdateMs>>
  IN IF getTimeDiff(date, next) > 0
     THEN LET n == CivilFromDays(next[1])
          IN <<DaysFromCivil(n[1], n[2], n[3] + 1), next[2]>>
     ELSE next

\* computeNextUpdateTime(now): Date.UTC(year, month, date, 10, 49, 0) of
\* now's UTC date, moved by setUTCDate(getUTCDate() + 1) when now >= next
computeNextUpdateTime(date) ==
  LET c == CivilFromDays(date[1])
      next == <<DaysFromCivil(c[1], c[2], c[3]), UpdateMs>>
  IN IF getTimeDiff(date, next) >= 0
     THEN LET n == CivilFromDays(next[1])
          IN <<DaysFromCivil(n[1], n[2], n[3] + 1), next[2]>>
     ELSE next

\* the browser's clock advances
ClockRuns(t) ==
  /\ getTimeDiff(t, dateNow) > 0
  /\ dateNow' = t
  /\ UNCHANGED <<now, config, store, job, response, chart, countdown>>

\* the component mounts: useMemo computes the target, useState the remaining
MountCountdown ==
  /\ countdown = NoCountdown
  /\ LET target == computeNextUpdateTime(dateNow)
     IN countdown' = [mountedAt |-> dateNow, target |-> target,
                      remaining |-> getTimeDiff(target, dateNow)]
  /\ UNCHANGED <<now, config, store, job, response, chart, dateNow>>

\* tick(): setRemaining(diff), or 0 once the target is reached, after which
\* no tick is scheduled
CountdownTick ==
  /\ countdown # NoCountdown
  /\ countdown.remaining > 0
  /\ LET diff == getTimeDiff(countdown.target, dateNow)
     IN countdown' = [countdown EXCEPT !.remaining = IF diff <= 0 THEN 0 ELSE diff]
  /\ UNCHANGED <<now, config, store, job, response, chart, dateNow>>

NextCountdown ==
  \/ \E t \in Instants : ClockRuns(t)
  \/ MountCountdown
  \/ CountdownTick

SpecCountdown == Init /\ [][NextCountdown]_vars

TypeOK == \A r \in RunIds : pc[r] \in {"idle", "stats", "summary", "write", "finally", "done"}

\* ================================================================ claims
\* every calendar date the clock can show, and the day before the first
Calendar == {CivilFromDays(FirstDay + i) : i \in -1..(MaxDay + MaxGap + 1)}

\* the calendar dates after `from` up to and including `to`
DatesBetween(from, to) ==
  {d \in Calendar : DateLess(from, d) /\ (d = to \/ DateLess(d, to))}

RowsOn(table, dates) == {x \in table : x.date \in dates}

SumOfDeltas(rows) == SumOver(rows, [x \in rows |-> x.downloads_delta])

DeltaOn(table, date) == (CHOOSE x \in table : x.date = date).downloads_delta

\* the run finished without an error, having taken the backfill branch
BackfillDone(r) == pc[r] = "done" /\ failed[r] = "no" /\ branch[r] = "backfill"

GapDatesOf(r) == DatesBetween(lastSnapshotDate[r], todayDate[r])

\* position of a date in the gap: 1 for the day after the last snapshot
GapIndex(r, d) ==
  DaysFromCivil(d[1], d[2], d[3])
    - DaysFromCivil(lastSnapshotDate[r][1], lastSnapshotDate[r][2], lastSnapshotDate[r][3])

\* C1: after a backfill run with totalDelta >= 0, the deltas stored for the
\* gap dates sum exactly to totalDelta.
C1_EvenSumsExactly ==
  \A r \in RunIds :
    (BackfillDone(r) /\ totalDelta[r] >= 0)
      => SumOfDeltas(RowsOn(daily_summary, GapDatesOf(r))) = totalDelta[r]

C1_Witness ==
  \E r \in RunIds :
    /\ BackfillDone(r)
    /\ totalDelta[r] = 9
    /\ Cardinality(GapDatesOf(r)) = 4

\* C2: after a backfill run with totalDelta >= 0, the first
\* (totalDelta mod gapDays) gap dates hold floor(totalDelta / gapDays) + 1 and
\* the later ones floor(totalDelta / gapDays).
C2_EvenShape ==
  \A r \in RunIds :
    (BackfillDone(r) /\ totalDelta[r] >= 0) =>
      LET n == Cardinality(GapDatesOf(r))
      IN \A d \in GapDatesOf(r) :
           /\ Cardinality(RowsOn(daily_summary, {d})) = 1
           /\ DeltaOn(daily_summary, d) =
                (totalDelta[r] \div n)
                  + (IF GapIndex(r, d) <= totalDelta[r] % n THEN 1 ELSE 0)

\* gapDays = 3, totalDelta = 10 gives 4, 3, 3
C2_Witness ==
  \E r \in RunIds :
    /\ BackfillDone(r)
    /\ totalDelta[r] = 10
    /\ [i \in 1..Len(plan[r]) |-> DeltaOn(daily_summary, plan[r][i][1])] = <<4, 3, 3>>

\* C3: a backfill run with totalDelta >= 0 writes exactly one row for each
\* calendar date after lastSnapshotDate up to today, gapDays rows in all, and
\* each value is a non-negative integer.
C3_OutputAlignment ==
  \A r \in RunIds :
    (BackfillDone(r) /\ totalDelta[r] >= 0) =>
      /\ Len(plan[r]) = Cardinality(GapDatesOf(r))
      /\ {plan[r][i][1] : i \in 1..Len(plan[r])} = GapDatesOf(r)
      /\ \A i \in 1..Len(plan[r]) :
           /\ GapIndex(r, plan[r][i][1]) = i
           /\ plan[r][i][2] \in Nat
           /\ \E x \in daily_summary :
                x.date = plan[r][i][1] /\ x.downloads_delta = plan[r][i][2]
      /\ todayDate[r] \in GapDatesOf(r)
      /\ \A x \in daily_summary : ~DateLess(todayDate[r], x.date)

\* the gap runs over the end of February into March
C3_Witness ==
  \E r \in RunIds :
    /\ BackfillDone(r)
    /\ totalDelta[r] > 0
    /\ lastSnapshotDate[r] = <<2024, 2, 28>>
    /\ todayDate[r] = <<2024, 3, 2>>
    /\ {x.date : x \in daily_summary} =
         {<<2024, 2, 28>>, <<2024, 2, 29>>, <<2024, 3, 1>>, <<2024, 3, 2>>}

\* C4: after a backfill run with a negative totalDelta, the deltas stored for
\* the gap dates sum exactly to totalDelta.
C4_NegativeSumsExactly ==
  \A r \in RunIds :
    (BackfillDone(r) /\ totalDelta[r] < 0)
      => SumOfDeltas(RowsOn(daily_summary, GapDatesOf(r))) = totalDelta[r]

\* the (date, downloads_delta) pairs of a summary table
DateDeltas(table) == {<<x.date, x.downloads_delta>> : x \in table}

\* Run r repeats the run before it: that run completed without error on the
\* same day, and the feed of run r left the snapshot table as it was.
RepeatsPriorRun(r) ==
  /\ prior[r].ok
  /\ prior[r].statsDate = statsDate[r]
  /\ prior[r].todayDate = todayDate[r]
  /\ statsDate[r] = todayDate[r]
  /\ asset_daily_stats = preStats[r]

Rerun(r) == pc[r] = "done" /\ failed[r] = "no" /\ RepeatsPriorRun(r)

PlanDates(r) == {plan[r][i][1] : i \in 1..Len(plan[r])}

\* C5: a second run on the same day with the same feed counters and the same
\* prior store leaves daily_summary with the same (date, downloads_delta) rows
\* as the first run left.
C5_RerunIdempotent ==
  \A r \in RunIds :
    Rerun(r) => /\ DateDeltas(daily_summary) = DateDeltas(preSummary[r])
                /\ Cardinality(daily_summary) = Cardinality(DateDeltas(daily_summary))

\* the repeated run is a backfill of two days with a remainder
C5_Witness ==
  \E r \in RunIds :
    /\ Rerun(r)
    /\ branch[r] = "backfill"
    /\ Len(plan[r]) = 2
    /\ totalDelta[r] = 1

\* C6 as stated: a second run for the same inputs at a later clock time leaves
\* every row it touches identical in every column, fetch_timestamp included.
C6_RerunByteIdentical ==
  \A r \in RunIds :
    Rerun(r) => RowsOn(daily_summary, PlanDates(r)) \subseteq preSummary[r]

\* C6 as amended: the upsert of a second run for the same inputs leaves every
\* row it touches with the same date and downloads_delta, and sets its
\* fetch_timestamp to the time of this write.
C6_RerunRefreshesTimestamp ==
  [][\A r \in RunIds :
       (pc[r] = "write" /\ pc'[r] = "finally" /\ failed'[r] = "no" /\ RepeatsPriorRun(r))
         => \A d \in PlanDates(r) :
              \E old \in daily_summary :
                /\ old.date = d
                /\ RowsOn(daily_summary', {d}) =
                     {[date |-> d, downloads_delta |-> old.downloads_delta,
                       fetch_timestamp |-> Timestamp(now)]}]_vars

\* the repeated run wrote later in the day than the first
C6_Witness ==
  \E r \in RunIds :
    /\ Rerun(r)
    /\ branch[r] = "backfill"
    /\ \E x \in preSummary[r], y \in daily_summary :
         /\ x.date = y.date
         /\ x.fetch_timestamp[1] = y.fetch_timestamp[1]
         /\ x.fetch_timestamp[2] < y.fetch_timestamp[2]

\* C7: when an upsert of the backfill transaction fails, no row of a gap date
\* has changed in daily_summary.
C7_AtomicBackfill ==
  \A r \in RunIds :
    (pc[r] \in {"finally", "done"} /\ failed[r] = "write" /\ branch[r] = "backfill")
      => RowsOn(daily_summary, GapDatesOf(r)) = RowsOn(preSummary[r], GapDatesOf(r))

\* the transaction was to replace a row that a run in the gap had written
C7_Witness ==
  \E r \in RunIds :
    /\ pc[r] = "done"
    /\ failed[r] = "write"
    /\ branch[r] = "backfill"
    /\ Len(plan[r]) = 2
    /\ \E x \in preSummary[r] : x.date = plan[r][1][1] /\ x.downloads_delta # plan[r][1][2]

\* C8: a run whose gap, delta or distribution computation raised an error
\* ends with both tables as they were when the run started.
C8_NoPartialWrites ==
  \A r \in RunIds :
    (pc[r] = "done" /\ failed[r] \in {"query", "gap"})
      => asset_daily_stats = preStats[r] /\ daily_summary = preSummary[r]

\* C9: a finished run has a failure exit status exactly when it hit an error.
C9_ExitStatusReflectsErrors ==
  \A r \in RunIds :
    pc[r] = "done" => ((exitCode[r] # 0) <=> (failed[r] # "no"))

\* C10: a run that finds no snapshot dated before today writes exactly one
\* row, for today, with delta 0, and distributes nothing.
C10_FirstRunZero ==
  \A r \in RunIds :
    (pc[r] = "done" /\ failed[r] = "no"
       /\ LastSnapshotBefore(asset_daily_stats, todayDate[r]) = NoDate)
      => /\ plan[r] = <<<<todayDate[r], 0>>>>
         /\ DateDeltas(daily_summary) =
              {p \in DateDeltas(preSummary[r]) : p[1] # todayDate[r]} \cup {<<todayDate[r], 0>>}

\* ---------------------------------------------------------------- C11, C12
DayNumber(d) == DaysFromCivil(d[1], d[2], d[3])

Yesterday(d) == CivilFromDays(DayNumber(d) - 1)

\* the run finished without an error
RunDone(r) == pc[r] = "done" /\ failed[r] = "no"

\* the policy asks for no distribution: strategy none, or a snapshot dated
\* before today that is fewer than minimumGapDays days old
ShortCircuit(r) ==
  LET L == LastSnapshotBefore(asset_daily_stats, todayDate[r])
  IN \/ backfillStrategy = STRATEGY_NONE
     \/ /\ L # NoDate
        /\ ~backfillMinimumGapDays.nan
        /\ DayNumber(todayDate[r]) - DayNumber(L) < backfillMinimumGapDays.value

\* C11: a run under strategy none, or with a prior snapshot and a gap shorter
\* than minimumGapDays, writes exactly one summary row, for today, holding the
\* delta from yesterday's snapshot to today's; the row of no other date is
\* written or changed.
C11_PolicyShortCircuit ==
  \A r \in RunIds :
    (RunDone(r) /\ ShortCircuit(r)) =>
      LET d == Delta(asset_daily_stats, Yesterday(todayDate[r]), todayDate[r])
      IN /\ plan[r] = <<<<todayDate[r], d>>>>
         /\ DateDeltas(daily_summary) =
              {p \in DateDeltas(preSummary[r]) : p[1] # todayDate[r]}
                \cup {<<todayDate[r], d>>}
         /\ RowsOn(daily_summary, Calendar \ {todayDate[r]})
              = RowsOn(preSummary[r], Calendar \ {todayDate[r]})

\* two days after the last snapshot with a threshold of three
C11_Witness ==
  \E r \in RunIds :
    /\ RunDone(r)
    /\ backfillStrategy # STRATEGY_NONE
    /\ ShortCircuit(r)
    /\ DayNumber(todayDate[r])
         - DayNumber(LastSnapshotBefore(asset_daily_stats, todayDate[r])) = 2
    /\ plan[r][1][2] > 0
    /\ preSummary[r] # {}

AssetIds == {1, 2}

CountOn(table, a, d) ==
  (CHOOSE x \in table : x.asset_id = a /\ x.date = d).download_count

HasRow(table, a, d) == \E x \in table : x.asset_id = a /\ x.date = d

\* what the Delta Calculator is to return for (older, newer)
ExpectedDelta(table, older, newer) ==
  LET term == [a \in AssetIds |->
        IF ~HasRow(table, a, newer) THEN 0
        ELSE IF HasRow(table, a, older)
             THEN CountOn(table, a, newer) - CountOn(table, a, older)
             ELSE CountOn(table, a, newer)]
  IN SumOver(AssetIds, term)

\* the older date of the delta a run computed
OlderDate(r) ==
  IF branch[r] = "backfill" THEN lastSnapshotDate[r] ELSE Yesterday(todayDate[r])

\* C12: the delta a run computes for (older, newer) is the sum, over the
\* assets with a row on newer, of newer minus older where the asset has a row
\* on older and of the whole newer count where it has none; assets with a row
\* on older only add nothing, and the delta is 0 when newer has no rows.
C12_DeltaCalculator ==
  \A r \in RunIds :
    (pc[r] \in {"write", "finally", "done"} /\ branch[r] \in {"none", "small", "backfill"}) =>
      /\ totalDelta[r] = ExpectedDelta(asset_daily_stats, OlderDate(r), todayDate[r])
      /\ (\A a \in AssetIds : ~HasRow(asset_daily_stats, a, todayDate[r]))
           => totalDelta[r] = 0

\* asset 1 grew, asset 2 has a row on the older date only
C12_Witness ==
  \E r \in RunIds :
    /\ RunDone(r)
    /\ branch[r] = "backfill"
    /\ HasRow(asset_daily_stats, 1, OlderDate(r))
    /\ HasRow(asset_daily_stats, 1, todayDate[r])
    /\ HasRow(asset_daily_stats, 2, OlderDate(r))
    /\ ~HasRow(asset_daily_stats, 2, todayDate[r])
    /\ CountOn(asset_daily_stats, 2, OlderDate(r)) = 1
    /\ totalDelta[r] = 3

\* ----------------------------------------------------------- C13, C14, C15
\* strategy even with a minimum gap of 2 days
DefaultPolicy ==
  /\ backfillStrategy = STRATEGY_EVEN
  /\ ~backfillMinimumGapDays.nan
  /\ backfillMinimumGapDays.value = 2

\* C13: under strategy even with a minimum gap of 2, whenever no run is in
\* progress every calendar date between the earliest and the latest date of
\* daily_summary has a row.
C13_GapFreeSeries ==
  (DefaultPolicy /\ \A r \in RunIds : pc[r] \in {"idle", "done"}) =>
    \A d \in Calendar :
      (\E x, y \in daily_summary : DateLess(x.date, d) /\ DateLess(d, y.date))
        => \E z \in daily_summary : z.date = d

\* the store holds no snapshot row dated d
NoSnapshotOn(d) == \A x \in asset_daily_stats : x.date # d

\* the run's fetch failed and the run went on
Degraded(r) == ~fetchOk[r] /\ pc[r] \in {"summary", "write", "finally", "done"}

\* a run whose fetch failed writes no snapshot rows and, unless the store
\* failed it, goes through the summary step
DegradedRunGoesOn(r) ==
  /\ Degraded(r) => asset_daily_stats = preStats[r]
  /\ (Degraded(r) /\ RunDone(r)) =>
       /\ branch[r] # "unset"
       /\ plan[r] # <<>>
       /\ \A i \in 1..Len(plan[r]) : RowsOn(daily_summary, {plan[r][i][1]}) # {}

PlanAllZero(r) ==
  \A i \in 1..Len(plan[r]) :
    plan[r][i][2] = 0 /\ DeltaOn(daily_summary, plan[r][i][1]) = 0

\* C14 as stated: a run whose fetch failed does not abort, writes no snapshot
\* rows, still executes the summary step, and every summary row it writes has
\* delta 0.
C14_DegradedFetchZero ==
  \A r \in RunIds :
    /\ DegradedRunGoesOn(r)
    /\ (Degraded(r) /\ RunDone(r)) => PlanAllZero(r)

\* C14: a run whose fetch failed does not abort, writes no snapshot rows,
\* still executes the summary step, and every summary row it writes has
\* delta 0 when the store holds no snapshot row dated today.
C14_DegradedFetchZeroWithoutTodayRows ==
  \A r \in RunIds :
    /\ DegradedRunGoesOn(r)
    /\ (Degraded(r) /\ RunDone(r) /\ NoSnapshotOn(todayDate[r])) => PlanAllZero(r)

\* a failed fetch two days after a snapshot with positive counters
C14_Witness ==
  \E r \in RunIds :
    /\ Degraded(r)
    /\ RunDone(r)
    /\ NoSnapshotOn(todayDate[r])
    /\ branch[r] = "backfill"
    /\ Len(plan[r]) = 2
    /\ \E x \in asset_daily_stats : x.download_count > 0

\* C15: under strategy even with a minimum gap of 2, a run with a successful
\* fetch on day D' that follows a run with a failed fetch on an earlier day
\* writes one row for every date after L up to D', L being the latest date
\* before D' with snapshot rows, and those rows sum to delta(L, D').
C15_RecoveryAfterFailedFetch ==
  \A r \in RunIds :
    LET L == LastSnapshotBefore(asset_daily_stats, todayDate[r])
        G == DatesBetween(L, todayDate[r])
    IN (/\ DefaultPolicy
        /\ RunDone(r)
        /\ fetchOk[r]
        /\ statsDate[r] = todayDate[r]
        /\ prior[r].statsDate # NoDate
        /\ ~prior[r].fetchOk
        /\ DateLess(prior[r].statsDate, statsDate[r])
        /\ L # NoDate)
       => /\ {plan[r][i][1] : i \in 1..Len(plan[r])} = G
          /\ \A d \in G : Cardinality(RowsOn(daily_summary, {d})) = 1
          /\ SumOfDeltas(RowsOn(daily_summary, G))
               = ExpectedDelta(asset_daily_stats, L, todayDate[r])

\* ---------------------------------------------------------------------- C20
\* C20: a step of db.close() that throws changes no row of either table and
\* leaves the run with the error and the exit status that a close that
\* returns leaves it with.
C20_CloseFailureSilent ==
  [][\A r \in RunIds :
       (pc[r] = "finally" /\ pc'[r] = "done" /\ closeFailed'[r]) =>
         /\ asset_daily_stats' = asset_daily_stats
         /\ daily_summary' = daily_summary
         /\ failed'[r] = failed[r]
         /\ exitCode'[r] = ExitStatus(failed[r])]_vars

\* close failed after a backfill whose rows are in the table
C20_Witness ==
  \E r \in RunIds :
    /\ RunDone(r)
    /\ closeFailed[r]
    /\ branch[r] = "backfill"
    /\ Len(plan[r]) = 2
    /\ \A i \in 1..Len(plan[r]) :
         DeltaOn(daily_summary, plan[r][i][1]) = plan[r][i][2]

\* ---------------------------------------------------------------------- C16
\* the strategy names the policy knows
ValidStrategy == backfillStrategy \in {STRATEGY_NONE, STRATEGY_EVEN, STRATEGY_PATTERN}

\* C16: under a strategy other than none, even and pattern, or a minimum gap
\* that is not an integer, a run fails and writes no summary row.
C16_ConfigValidated ==
  \A r \in RunIds :
    ((~ValidStrategy \/ backfillMinimumGapDays.nan) /\ pc[r] # "idle") =>
      /\ daily_summary = preSummary[r]
      /\ pc[r] = "done" => failed[r] # "no"

\* ----------------------------------------------------------- C17, C18, C19
\* the dates in ascending order
RECURSIVE SortedDates(_)
SortedDates(dates) ==
  IF dates = {} THEN <<>>
  ELSE LET first == CHOOSE d \in dates : \A e \in dates : e = d \/ DateLess(d, e)
       IN <<first>> \o SortedDates(dates \ {first})

\* the baseline of a distribution over the dates after L: the deltas that
\* daily_summary held for the dates up to L, oldest first (the lookback of 30
\* days reaches past the first day)
Baseline(table, L) ==
  LET dates == SortedDates({x.date : x \in {y \in table : ~DateLess(L, y.date)}})
  IN [i \in 1..Len(dates) |-> DeltaOn(table, dates[i])]

RECURSIVE SeqSum(_)
SeqSum(q) == IF q = <<>> THEN 0 ELSE Head(q) + SeqSum(Tail(q))

\* the pattern series: the baseline cycled over n days
PatternSeries(baseline, n) ==
  [i \in 1..n |-> baseline[((i - 1) % Len(baseline)) + 1]]

PatternStrategy == backfillStrategy = STRATEGY_PATTERN

\* C17: under strategy pattern, a backfill run with totalDelta >= 0 and a
\* baseline of positive sum stores deltas for the gap dates that sum exactly
\* to totalDelta.
C17_PatternSumsExactly ==
  \A r \in RunIds :
    (/\ PatternStrategy
     /\ BackfillDone(r)
     /\ totalDelta[r] >= 0
     /\ SeqSum(Baseline(preSummary[r], lastSnapshotDate[r])) > 0)
      => /\ \A d \in GapDatesOf(r) : Cardinality(RowsOn(daily_summary, {d})) = 1
         /\ SumOfDeltas(RowsOn(daily_summary, GapDatesOf(r))) = totalDelta[r]

\* 7 over 3 days after a history with a positive delta
C17_Witness ==
  \E r \in RunIds :
    /\ PatternStrategy
    /\ BackfillDone(r)
    /\ totalDelta[r] = 7
    /\ Cardinality(GapDatesOf(r)) = 3
    /\ SeqSum(Baseline(preSummary[r], lastSnapshotDate[r])) > 0

\* C18: under strategy pattern, with a baseline of non-negative values whose
\* pattern series has a positive sum, gap day i is weighted by
\* baseline[i mod len(baseline)] and holds floor(totalDelta * w_i / sum(w)) or
\* that value plus 1.
C18_PatternShape ==
  \A r \in RunIds :
    LET baseline == Baseline(preSummary[r], lastSnapshotDate[r])
        n == Cardinality(GapDatesOf(r))
        w == PatternSeries(baseline, n)
    IN (/\ PatternStrategy
        /\ BackfillDone(r)
        /\ totalDelta[r] >= 0
        /\ baseline # <<>>
        /\ \A i \in 1..Len(baseline) : baseline[i] >= 0
        /\ SeqSum(w) > 0)
       => \A d \in GapDatesOf(r) :
            LET q == (totalDelta[r] * w[GapIndex(r, d)]) \div SeqSum(w)
            IN DeltaOn(daily_summary, d) \in {q, q + 1}

\* C19: under strategy pattern, a run that distributes over a gap with a
\* baseline that is empty or has no positive value stores, for the gap dates,
\* the values of the even distribution of the same total over the same days.
C19_PatternFallback ==
  \A r \in RunIds :
    LET L == LastSnapshotBefore(asset_daily_stats, todayDate[r])
        n == DayNumber(todayDate[r]) - DayNumber(L)
        T == ExpectedDelta(asset_daily_stats, L, todayDate[r])
        baseline == Baseline(preSummary[r], L)
    IN (/\ PatternStrategy
        /\ RunDone(r)
        /\ L # NoDate
        /\ ~ShortCircuit(r)
        /\ \A i \in 1..Len(baseline) : baseline[i] <= 0)
       => \A d \in DatesBetween(L, todayDate[r]) :
            /\ Cardinality(RowsOn(daily_summary, {d})) = 1
            /\ DeltaOn(daily_summary, d) =
                 (T \div n)
                   + (IF T >= 0 /\ DayNumber(d) - DayNumber(L) <= T % n THEN 1 ELSE 0)

\* 5 over 3 days after a history of zero deltas
C19_Witness ==
  \E r \in RunIds :
    /\ PatternStrategy
    /\ BackfillDone(r)
    /\ totalDelta[r] = 5
    /\ Cardinality(GapDatesOf(r)) = 3
    /\ LET baseline == Baseline(preSummary[r], lastSnapshotDate[r])
       IN Len(baseline) = 3 /\ \A i \in 1..3 : baseline[i] = 0

\* ---------------------------------------------------------------------- C21
\* C21: no run raises the invalid-gap error: whenever a snapshot dated
\* before today is found, today is at least one day after it.
C21_InvalidGapUnreachable ==
  \A r \in RunIds :
    /\ failed[r] # "gap"
    /\ (pc[r] \in {"write", "finally", "done"} /\ lastSnapshotDate[r] # NoDate) =>
         /\ DayNumber(todayDate[r]) - DayNumber(lastSnapshotDate[r]) >= 1
         /\ daysBetweenExclusiveInclusive(lastSnapshotDate[r], todayDate[r]) >= 1

\* from 28 February to 1 March of a leap year
C21_Witness ==
  \E r \in RunIds :
    /\ RunDone(r)
    /\ lastSnapshotDate[r] = <<2024, 2, 28>>
    /\ todayDate[r] = <<2024, 3, 1>>
    /\ Len(plan[r]) = 2

\* ---------------------------------------------------------------------- C24
\* C24: a backfill run leaves every daily_summary row dated on or before
\* lastSnapshotDate, or after today, and every snapshot row of another date
\* than the one it stored, as they were.
C24_BackfillFrame ==
  \A r \in RunIds :
    BackfillDone(r) =>
      LET outside == Calendar \ GapDatesOf(r)
      IN /\ RowsOn(daily_summary, outside) = RowsOn(preSummary[r], outside)
         /\ \A x \in daily_summary \cup preSummary[r] : x.date \in Calendar
         /\ {x \in asset_daily_stats : x.date # statsDate[r]}
              = {x \in preStats[r] : x.date # statsDate[r]}

\* rows before the gap with a delta, a row in the gap that is replaced
C24_Witness ==
  \E r \in RunIds :
    /\ BackfillDone(r)
    /\ Len(plan[r]) = 2
    /\ \E x \in preSummary[r] :
         ~DateLess(lastSnapshotDate[r], x.date) /\ x.downloads_delta # 0
    /\ \E x \in preSummary[r] :
         x.date \in GapDatesOf(r) /\ x.downloads_delta # DeltaOn(daily_summary, x.date)
    /\ \E x \in preStats[r] : x.download_count > 0

\* ---------------------------------------------------------------------- C25
\* C25: within a run, the date storeDailySummary takes as today is the date
\* under which storeDailyStats stored the snapshot, and that snapshot is not
\* the run's last prior snapshot.
C25_OneRunOneDate ==
  \A r \in RunIds :
    (pc[r] \in {"write", "finally", "done"} /\ todayDate[r] # NoDate /\ statsDate[r] # NoDate) =>
      /\ todayDate[r] = statsDate[r]
      /\ lastSnapshotDate[r] # statsDate[r]

\* ---------------------------------------------------------------------- C27
\* the assets with a row are the same on both dates and no counter is lower
\* on the later one
SameAssetsGrowing(table, older, newer) ==
  \A a \in AssetIds :
    /\ HasRow(table, a, older) <=> HasRow(table, a, newer)
    /\ HasRow(table, a, older) => CountOn(table, a, older) <= CountOn(table, a, newer)

\* C27: with the same assets and no counter lower than in the last prior
\* snapshot, the delta a short-circuit run writes for today is at most the
\* counters' increase since that snapshot.
C27_BoundedSingleDayDelta ==
  \A r \in RunIds :
    LET L == LastSnapshotBefore(asset_daily_stats, todayDate[r])
    IN (/\ RunDone(r)
        /\ ShortCircuit(r)
        /\ L # NoDate
        /\ SameAssetsGrowing(asset_daily_stats, L, todayDate[r]))
       => /\ Len(plan[r]) = 1
          /\ plan[r][1][2] <= ExpectedDelta(asset_daily_stats, L, todayDate[r])
          /\ DeltaOn(daily_summary, todayDate[r])
               <= ExpectedDelta(asset_daily_stats, L, todayDate[r])

\* ---------------------------------------------------------------------- C28
\* C28: a run that finished without an error leaves a daily_summary row
\* dated today, the date storeDailySummary read.
C28_TodaySummarised ==
  \A r \in RunIds :
    RunDone(r) =>
      /\ todayDate[r] # NoDate
      /\ Cardinality(RowsOn(daily_summary, {todayDate[r]})) = 1
      /\ \E i \in 1..Len(plan[r]) : plan[r][i][1] = todayDate[r]

\* a backfill of two days after a failed fetch
C28_Witness ==
  \E r \in RunIds :
    /\ RunDone(r)
    /\ ~fetchOk[r]
    /\ branch[r] = "backfill"
    /\ Len(plan[r]) = 2
    /\ \E x \in daily_summary : x.date = todayDate[r] /\ x.fetch_timestamp[1] = todayDate[r]

\* ---------------------------------------------------------------------- C23
SnapshotDates == {x.date : x \in asset_daily_stats}

\* the counters of the snapshot dated d, added up
SnapshotTotal(d) ==
  LET rows == {x \in asset_daily_stats : x.date = d}
  IN SumOver(rows, [x \in rows |-> x.download_count])

EarliestSnapshot == CHOOSE d \in SnapshotDates : \A e \in SnapshotDates : e = d \/ DateLess(d, e)

LatestSnapshot == CHOOSE d \in SnapshotDates : \A e \in SnapshotDates : e = d \/ DateLess(e, d)

\* every stored snapshot has the same assets, with counters that never drop
FixedAssetsGrowing ==
  \A d, e \in SnapshotDates : DateLess(d, e) => SameAssetsGrowing(asset_daily_stats, d, e)

\* C23: under strategy even with a minimum gap of 2, with snapshots of the
\* same assets and counters that never drop, whenever no run is in progress
\* the deltas of daily_summary add up to the counters of the latest snapshot
\* minus those of the earliest.
C23_Conservation ==
  (/\ DefaultPolicy
   /\ \A r \in RunIds : pc[r] \in {"idle", "done"}
   /\ SnapshotDates # {}
   /\ FixedAssetsGrowing)
    => SumOfDeltas(daily_summary)
         = SnapshotTotal(LatestSnapshot) - SnapshotTotal(EarliestSnapshot)

\* ---------------------------------------------------------------------- C26
\* C26: once two backfill runs of the same day have both finished, the
\* deltas stored for the gap dates add up to the delta between the last
\* prior snapshot and the snapshot stored for today.
C26_OverlappingRuns ==
  \A r1, r2 \in RunIds :
    (/\ r1 # r2
     /\ BackfillDone(r1) /\ BackfillDone(r2)
     /\ todayDate[r1] = todayDate[r2]
     /\ statsDate[r1] = todayDate[r1] /\ statsDate[r2] = todayDate[r2]
     /\ totalDelta[r1] >= 0 /\ totalDelta[r2] >= 0)
      => SumOfDeltas(RowsOn(daily_summary, GapDatesOf(r1)))
           = ExpectedDelta(asset_daily_stats, lastSnapshotDate[r1], todayDate[r1])

\* ---------------------------------------------------------------------- C22
\* C22: a step changes daily_summary only when it is the upsert of a run's
\* summary step, and a request to a read route changes no table, whatever
\* status it answers.
C22_SoleMutator ==
  [][/\ daily_summary' # daily_summary
          => \E r \in RunIds : pc[r] = "write" /\ pc'[r] = "finally"
     /\ response' # response
          => asset_daily_stats' = asset_daily_stats /\ daily_summary' = daily_summary]_vars

\* a 200 with two rows after another request
C22_Witness ==
  /\ response.route = "daily"
  /\ response.status = 200
  /\ Len(response.body) = 2
  /\ \A i \in 1..2 : \E x \in daily_summary :
       x.date = response.body[i].date /\ x.downloads_delta = response.body[i].downloadsDelta

\* ---------------------------------------------------------------------- C29
\* C29: while the request of the selected timeframe, the one started last,
\* is pending, loading is true.
C29_LoadingWhilePending ==
  (requests # <<>> /\ requests[Len(requests)].status = "pending") => loading

\* ---------------------------------------------------------------------- C30
\* C30: the target computed at an instant is at 10:49:00.000 UTC, later than
\* that instant and at most 24 hours later; computed at 10:49:00.000 it is
\* the next day's.
C30_NextUpdateTime ==
  countdown # NoCountdown =>
    LET d == getTimeDiff(countdown.target, countdown.mountedAt)
    IN /\ countdown.target[2] = UpdateMs
       /\ 0 < d /\ d <= MsPerDay
       /\ countdown.mountedAt[2] = UpdateMs
            => countdown.target = <<countdown.mountedAt[1] + 1, UpdateMs>>

\* mounted at 10:49:00.000 on 29 February 2024
C30_Witness ==
  /\ countdown # NoCountdown
  /\ countdown.mountedAt = <<DaysFromCivil(2024, 2, 29), UpdateMs>>
  /\ countdown.target = <<DaysFromCivil(2024, 3, 1), UpdateMs>>
  /\ countdown.remaining = MsPerDay
====
